---- MODULE Spec2Model ----
(***************************************************************************)
(* Cross-episode speaker identity resolution: the SQLite speaker store     *)
(* (speaker_database.py), the two-stage speaker-level segmentation         *)
(* (speaker_level_segmentation.py), the per-episode driver                 *)
(* (pyannote_speaker_segmentation.py main) and the episode cleanup         *)
(* (database_cleanup.py).                                                  *)
(*                                                                         *)
(* Numbers.  Times are integers in tenths of a second.  An embedding is a  *)
(* 2-dimensional vector of fixed-point components with 100 standing for    *)
(* 1.0, so <<60, 80>> has norm 1.0 and <<120, 160>> has norm 2.0.  A       *)
(* similarity is a cosine in hundredths (96 is 0.96), and so is the        *)
(* threshold.  Divisions truncate as the fixed-point grid requires.        *)
(*                                                                         *)
(* Concurrency.  Every run of the driver and every run of the cleanup tool *)
(* is an operating-system process of its own on the one database file.     *)
(* Each method of SpeakerDatabase opens its own connection and commits     *)
(* once, so one step of the model is one such read or one such committed   *)
(* transaction; nothing in the source holds a lock from one call to the    *)
(* next.                                                                   *)
(***************************************************************************)
EXTENDS Integers, Sequences, FiniteSets, TLC

\* ---------------------------------------------------------------- bounds
NumProcs == 2
MaxEpisode == 2
\* store calls that may raise in one behaviour
MaxStoreFailures == 1

\* the longest subtitle list and detector-turn list the segment builder is
\* applied to
MaxLines == 3
MaxTurns == 3

Procs == 1..NumProcs
Episodes == 1..MaxEpisode

\* ------------------------------------------------------- program constants
\* main(): --min_duration default 2.0 s
MinDuration == 20
\* main(): --max_duration default 15.0 s
MaxDuration == 150
\* segment_by_speaker_level_approach: min_speaker_duration default 5.0 s
MinSpeakerDuration == 50
\* generate_final_segments_with_subtitles: the last line's estimate, 10.0 s
TailEstimate == 100
\* find_similar_speaker: `return None, 0.0`, the id of no speaker
NoSpeaker == 0

\* The extractor's outputs the model draws from: two unit vectors and one
\* vector of norm 2.0 (the extractor may return any scale).
\*   cos(<<100,0>>, <<120,160>>) = 0.60   cos(<<100,0>>, <<80,60>>) = 0.80
\*   cos(<<80,60>>, <<120,160>>) = 0.96
Sigs == { <<100, 0>>, <<80, 60>>, <<120, 160>> }

\* --similarity_threshold values of a deployment, in hundredths: 0.60 is met
\* exactly by a pair of Sigs, 0.85 is main()'s default.
Thresholds == { 60, 85 }

\* EMBEDDING_UPDATE_WEIGHT values, default 1.0
UpdateWeights == { 1 }

\* The episodes the model processes: the detector's turns, the subtitle
\* timestamps, and what the extractor returns for the concatenated audio of a
\* local label (a label without an entry is one whose extraction fails).
Turn(l, s, e) == [label |-> l, start |-> s, end |-> e]

Inputs ==
  { \* B speaks 3.0 s in all and is filtered; A has two turns
    [turns |-> << Turn("A", 0, 30), Turn("B", 30, 60), Turn("A", 60, 90) >>,
     subtitles |-> << 0, 30, 60 >>,
     voices |-> [l \in {"A", "B"} |-> IF l = "A" THEN <<80, 60>> ELSE <<100, 0>>]],
    \* two speakers 0.60 apart; A's 5.0 s meet the filter exactly
    [turns |-> << Turn("A", 0, 50), Turn("B", 50, 110) >>,
     subtitles |-> << 0, 50, 60 >>,
     voices |-> [l \in {"A", "B"} |-> IF l = "A" THEN <<100, 0>> ELSE <<120, 160>>]],
    \* two speakers 0.96 apart
    [turns |-> << Turn("A", 0, 50), Turn("B", 50, 110) >>,
     subtitles |-> << 0, 50, 60 >>,
     voices |-> [l \in {"A", "B"} |-> IF l = "A" THEN <<80, 60>> ELSE <<120, 160>>]],
    \* B's extraction fails
    [turns |-> << Turn("A", 0, 50), Turn("B", 50, 110) >>,
     subtitles |-> << 0, 50, 60 >>,
     voices |-> [l \in {"A"} |-> <<120, 160>>]],
    \* no subtitles
    [turns |-> << Turn("A", 0, 60) >>,
     subtitles |-> << >>,
     voices |-> [l \in {"A"} |-> <<100, 0>>]] }

\* ---------------------------------------------------------- small helpers
Min(a, b) == IF a < b THEN a ELSE b
Max(a, b) == IF a > b THEN a ELSE b

SetMax(S) == CHOOSE x \in S : \A y \in S : y <= x

RECURSIVE SeqSum(_)
SeqSum(s) == IF s = << >> THEN 0 ELSE Head(s) + SeqSum(Tail(s))

Elems(s) == { s[i] : i \in 1..Len(s) }

\* the elements of a set of integers in ascending order
RECURSIVE SortedSeq(_)
SortedSeq(S) ==
  IF S = {} THEN << >>
  ELSE LET m == CHOOSE x \in S : \A y \in S : x <= y
       IN << m >> \o SortedSeq(S \ {m})

\* list.sort()
RECURSIVE InsertSorted(_, _)
InsertSorted(s, x) ==
  IF s = << >> THEN << x >>
  ELSE IF x <= Head(s) THEN << x >> \o s
  ELSE << Head(s) >> \o InsertSorted(Tail(s), x)

RECURSIVE SortList(_)
SortList(s) == IF s = << >> THEN << >> ELSE InsertSorted(SortList(Tail(s)), Head(s))

\* ------------------------------------------------------ vector arithmetic
Dot(a, b) == a[1] * b[1] + a[2] * b[2]

\* floor of the square root, by bisection
RECURSIVE SqrtIter(_, _, _)
SqrtIter(x, lo, hi) ==
  IF lo >= hi THEN lo
  ELSE LET mid == (lo + hi + 1) \div 2
       IN IF mid * mid <= x THEN SqrtIter(x, mid, hi) ELSE SqrtIter(x, lo, mid - 1)

\* np.linalg.norm, in hundredths
Norm(v) == SqrtIter(Dot(v, v), 0, 1024)

\* F.cosine_similarity, in hundredths; a zero vector gives 0 (torch clamps the
\* denominator by eps)
CosineSimilarity(a, b) ==
  LET na == Norm(a)
      nb == Norm(b)
  IN IF na = 0 \/ nb = 0 THEN 0 ELSE (Dot(a, b) * 100) \div (na * nb)

\* ------------------------------------------- the store: speaker_database.py
SpeakerRow_NoDefault(embedding, episode_num, local_label, segment_count) ==
  [embedding |-> embedding, episode_count |-> 0, segment_count |-> segment_count,
   note_episode |-> episode_num, note_label |-> local_label]

\* A row of table speakers.  notes holds "First appeared in episode <n> as
\* <label>", kept here as its two parts; episode_count has DEFAULT 1.
SpeakerRow(embedding, episode_num, local_label, segment_count) ==
  [embedding |-> embedding, episode_count |-> 1, segment_count |-> segment_count,
   note_episode |-> episode_num, note_label |-> local_label]

\* A row of table speaker_episodes.
AppearanceRow(speaker_id, episode_num, local_label, segment_count) ==
  [speaker_id |-> speaker_id, episode_num |-> episode_num,
   local_label |-> local_label, segment_count |-> segment_count]

NextSpeakerId_Reuse(spk) == IF DOMAIN spk = {} THEN 1 ELSE SetMax(DOMAIN spk)

\* The rowid SQLite gives an INSERT into an INTEGER PRIMARY KEY table: one
\* more than the largest rowid in the table (cursor.lastrowid).
NextSpeakerId(spk) == IF DOMAIN spk = {} THEN 1 ELSE SetMax(DOMAIN spk) + 1

\* INSERT OR IGNORE under UNIQUE(speaker_id, episode_num)
InsertOrIgnore(app, row) ==
  IF \E r \in app : r.speaker_id = row.speaker_id /\ r.episode_num = row.episode_num
  THEN app
  ELSE app \cup {row}

InsertOrReplace_Plain(app, row) == app \cup {row}

\* INSERT OR REPLACE under UNIQUE(speaker_id, episode_num)
InsertOrReplace(app, row) ==
  { r \in app : ~(r.speaker_id = row.speaker_id /\ r.episode_num = row.episode_num) }
    \cup {row}

\* add_speaker: the new tables and the id returned
add_speaker(spk, app, embedding, episode_num, local_label, segment_count) ==
  LET speaker_id == NextSpeakerId(spk)
      row == SpeakerRow(embedding, episode_num, local_label, segment_count)
  IN [speakers |-> [i \in DOMAIN spk \cup {speaker_id} |->
                      IF i = speaker_id THEN row ELSE spk[i]],
      speaker_episodes |->
        InsertOrIgnore(app, AppearanceRow(speaker_id, episode_num, local_label,
                                          segment_count)),
      speaker_id |-> speaker_id]

DistinctEpisodes_AllSpeakers(app, speaker_id) ==
  Cardinality({ r.episode_num : r \in app })

\* SELECT COUNT(DISTINCT episode_num) FROM speaker_episodes WHERE speaker_id = ?
DistinctEpisodes(app, speaker_id) ==
  Cardinality({ r.episode_num : r \in { x \in app : x.speaker_id = speaker_id } })

\* update_speaker_episode: the new tables
update_speaker_episode(spk, app, speaker_id, episode_num, local_label, segment_count) ==
  LET app2 == InsertOrReplace(app, AppearanceRow(speaker_id, episode_num, local_label,
                                                 segment_count))
  IN [speakers |-> [i \in DOMAIN spk |->
                      IF i = speaker_id
                      THEN [spk[i] EXCEPT !.episode_count = DistinctEpisodes(app2, speaker_id),
                                          !.segment_count = @ + segment_count]
                      ELSE spk[i]],
      speaker_episodes |-> app2]

BetterMatch_OrEqual(similarity, max_similarity) == similarity >= max_similarity

\* `if similarity > max_similarity`
BetterMatch(similarity, max_similarity) == similarity > max_similarity

\* find_similar_speaker, the loop over the fetched rows: max_similarity starts
\* at 0.0 and best_speaker_id at None, a row wins on a strictly greater score
RECURSIVE ScanSpeakers(_, _, _, _, _)
ScanSpeakers(spk, ids, embedding, max_similarity, best_speaker_id) ==
  IF ids = << >> THEN [speaker_id |-> best_speaker_id, similarity |-> max_similarity]
  ELSE LET similarity == CosineSimilarity(embedding, spk[Head(ids)].embedding)
       IN IF BetterMatch(similarity, max_similarity)
          THEN ScanSpeakers(spk, Tail(ids), embedding, similarity, Head(ids))
          ELSE ScanSpeakers(spk, Tail(ids), embedding, max_similarity, best_speaker_id)

ExceedsThreshold_NotStrict(max_similarity, threshold) == max_similarity >= threshold

\* `if max_similarity > similarity_threshold`
ExceedsThreshold(max_similarity, threshold) == max_similarity > threshold

find_similar_speaker_NoThreshold(spk, embedding, threshold) ==
  IF DOMAIN spk = {} THEN [speaker_id |-> NoSpeaker, similarity |-> 0]
  ELSE ScanSpeakers(spk, SortedSeq(DOMAIN spk), embedding, 0, NoSpeaker)

\* find_similar_speaker without its update call: (speaker_id, similarity), or
\* (None, max_similarity), or (None, 0.0) on an empty table
find_similar_speaker(spk, embedding, threshold) ==
  IF DOMAIN spk = {} THEN [speaker_id |-> NoSpeaker, similarity |-> 0]
  ELSE LET r == ScanSpeakers(spk, SortedSeq(DOMAIN spk), embedding, 0, NoSpeaker)
       IN IF ExceedsThreshold(r.similarity, threshold)
          THEN r
          ELSE [speaker_id |-> NoSpeaker, similarity |-> r.similarity]

BlendEmbedding_NoNormalize(old_embedding, segment_count, new_embedding, new_weight) ==
  LET old_weight == Max(1, segment_count)
      total_weight == old_weight + new_weight
  IN << (old_weight * old_embedding[1] + new_weight * new_embedding[1])
          \div total_weight,
        (old_weight * old_embedding[2] + new_weight * new_embedding[2])
          \div total_weight >>

\* update_speaker_embedding: the weighted average of the stored and the new
\* embedding, then its division by its norm
BlendEmbedding(old_embedding, segment_count, new_embedding, new_weight) ==
  LET old_weight == Max(1, segment_count)
      total_weight == old_weight + new_weight
      updated == << (old_weight * old_embedding[1] + new_weight * new_embedding[1])
                      \div total_weight,
                    (old_weight * old_embedding[2] + new_weight * new_embedding[2])
                      \div total_weight >>
      n == Norm(updated)
  IN IF n = 0 THEN updated
     ELSE << (updated[1] * 100) \div n, (updated[2] * 100) \div n >>

NeedsMarking_Always(processed, episode_num) == TRUE

\* mark_episode_processed: `if episode_num not in processed`
NeedsMarking(processed, episode_num) == episode_num \notin Elems(processed)

\* mark_episode_processed: the list it writes when episode_num is not in the
\* list it read (append, sort)
MarkedList(processed, episode_num) == SortList(Append(processed, episode_num))

AlreadyProcessed_IgnoreForce(processed, episode_num, force_flag) ==
  episode_num \in Elems(processed)

\* main(): `if args.episode_num in processed_episodes and not args.force`
AlreadyProcessed(processed, episode_num, force_flag) ==
  episode_num \in Elems(processed) /\ ~force_flag

\* ------------------------------- stage 1: speaker_level_segmentation.py
LabelsInOrder_Reversed(turns) ==
  LET F[i \in 0..Len(turns)] ==
        IF i = 0 THEN << >>
        ELSE IF turns[i].label \in Elems(F[i - 1]) THEN F[i - 1]
        ELSE << turns[i].label >> \o F[i - 1]
  IN F[Len(turns)]

\* The keys of extract_speaker_segments_from_diarization's dict, in the order
\* of their first turn
LabelsInOrder(turns) ==
  LET F[i \in 0..Len(turns)] ==
        IF i = 0 THEN << >>
        ELSE IF turns[i].label \in Elems(F[i - 1]) THEN F[i - 1]
        ELSE Append(F[i - 1], turns[i].label)
  IN F[Len(turns)]

\* speaker_segments[speaker]
SegmentsOf(turns, l) == SelectSeq(turns, LAMBDA t : t.label = l)

calculate_total_duration(segments) ==
  SeqSum([i \in 1..Len(segments) |-> segments[i].end - segments[i].start])

ValidSpeakers_Strict(turns, min_speaker_duration) ==
  SelectSeq(LabelsInOrder(turns),
            LAMBDA l : calculate_total_duration(SegmentsOf(turns, l)) > min_speaker_duration)

\* valid_speakers: the labels kept by the duration filter, in dict order
ValidSpeakers(turns, min_speaker_duration) ==
  SelectSeq(LabelsInOrder(turns),
            LAMBDA l : calculate_total_duration(SegmentsOf(turns, l)) >= min_speaker_duration)

\* filtered_count = len(speaker_segments) - len(valid_speakers), the number
\* the run reports as filtered
filtered_count(turns, min_speaker_duration) ==
  Len(LabelsInOrder(turns)) - Len(ValidSpeakers(turns, min_speaker_duration))

\* ------------------------------------------------ stage 3: final segments
NoLabel == "none"

\* get_dominant_speaker_in_range's speaker_durations, a dict in insertion
\* order: the summed overlap per label with the window [s, e)
SpeakerDurations(turns, s, e) ==
  LET F[i \in 0..Len(turns)] ==
        IF i = 0 THEN << >>
        ELSE LET t == turns[i]
                 overlap == Min(e, t.end) - Max(s, t.start)
                 prev == F[i - 1]
             IN IF overlap <= 0 THEN prev
                ELSE IF \E k \in 1..Len(prev) : prev[k].label = t.label
                THEN [k \in 1..Len(prev) |->
                        IF prev[k].label = t.label
                        THEN [prev[k] EXCEPT !.duration = @ + overlap]
                        ELSE prev[k]]
                ELSE Append(prev, [label |-> t.label, duration |-> overlap])
  IN F[Len(turns)]

get_dominant_speaker_in_range_LastMax(turns, s, e) ==
  LET d == SpeakerDurations(turns, s, e)
  IN IF d = << >> THEN NoLabel
     ELSE d[CHOOSE k \in 1..Len(d) :
              /\ \A j \in 1..Len(d) : d[j].duration <= d[k].duration
              /\ \A j \in (k + 1)..Len(d) : d[j].duration < d[k].duration].label

\* max(speaker_durations.items(), key=...)[0]: the first of the largest
get_dominant_speaker_in_range(turns, s, e) ==
  LET d == SpeakerDurations(turns, s, e)
  IN IF d = << >> THEN NoLabel
     ELSE d[CHOOSE k \in 1..Len(d) :
              /\ \A j \in 1..Len(d) : d[j].duration <= d[k].duration
              /\ \A j \in 1..(k - 1) : d[j].duration < d[k].duration].label

SegmentOfLine_NoMinFilter(subtitles, turns, map, min_duration, max_duration, i) ==
  LET start_time == subtitles[i]
      estimate == IF i < Len(subtitles) THEN subtitles[i + 1]
                  ELSE start_time + Min(TailEstimate, max_duration)
      end_time == Min(estimate, start_time + max_duration)
      duration == end_time - start_time
  IN IF duration > max_duration THEN << >>
     ELSE LET dominant_speaker == get_dominant_speaker_in_range(turns, start_time, end_time)
          IN IF dominant_speaker # NoLabel /\ dominant_speaker \in DOMAIN map
             THEN << [start |-> start_time, end |-> end_time,
                      speaker_id |-> map[dominant_speaker]] >>
             ELSE << >>

SegmentOfLine_DefaultId(subtitles, turns, map, min_duration, max_duration, i) ==
  LET start_time == subtitles[i]
      estimate == IF i < Len(subtitles) THEN subtitles[i + 1]
                  ELSE start_time + Min(TailEstimate, max_duration)
      end_time == Min(estimate, start_time + max_duration)
      duration == end_time - start_time
  IN IF duration < min_duration \/ duration > max_duration THEN << >>
     ELSE LET dominant_speaker == get_dominant_speaker_in_range(turns, start_time, end_time)
          IN IF dominant_speaker = NoLabel THEN << >>
             ELSE << [start |-> start_time, end |-> end_time,
                      speaker_id |-> IF dominant_speaker \in DOMAIN map
                                     THEN map[dominant_speaker] ELSE NoSpeaker] >>

\* One pass of generate_final_segments_with_subtitles's loop: the segment of
\* subtitle line i, or nothing
SegmentOfLine(subtitles, turns, map, min_duration, max_duration, i) ==
  LET start_time == subtitles[i]
      estimate == IF i < Len(subtitles) THEN subtitles[i + 1]
                  ELSE start_time + Min(TailEstimate, max_duration)
      end_time == Min(estimate, start_time + max_duration)
      duration == end_time - start_time
  IN IF duration < min_duration \/ duration > max_duration THEN << >>
     ELSE LET dominant_speaker == get_dominant_speaker_in_range(turns, start_time, end_time)
          IN IF dominant_speaker # NoLabel /\ dominant_speaker \in DOMAIN map
             THEN << [start |-> start_time, end |-> end_time,
                      speaker_id |-> map[dominant_speaker]] >>
             ELSE << >>

generate_final_segments_with_subtitles_Prepend(subtitles, turns, map, min_duration, max_duration) ==
  LET F[i \in 0..Len(subtitles)] ==
        IF i = 0 THEN << >>
        ELSE SegmentOfLine(subtitles, turns, map, min_duration, max_duration, i) \o F[i - 1]
  IN F[Len(subtitles)]

\* generate_final_segments_with_subtitles: the loop over the lines, each
\* line's segment appended
generate_final_segments_with_subtitles(subtitles, turns, map, min_duration, max_duration) ==
  LET F[i \in 0..Len(subtitles)] ==
        IF i = 0 THEN << >>
        ELSE F[i - 1] \o SegmentOfLine(subtitles, turns, map, min_duration, max_duration, i)
  IN F[Len(subtitles)]

\* ------------------------------------------------------------------ state
VARIABLES
  speakers,            \* table speakers: speaker_id -> row
  speaker_episodes,    \* table speaker_episodes: a set of rows
  processed_episodes,  \* processing_state['processed_episodes']: a sorted list
  similarity_threshold,\* --similarity_threshold of the deployment
  update_embeddings,   \* UPDATE_SPEAKER_EMBEDDINGS
  update_weight,       \* EMBEDDING_UPDATE_WEIGHT
  pc,                  \* where each process is
  episode_num,         \* --episode_num of a run
  force,               \* --force of a run
  input,               \* the run's detector turns and subtitles
  speaker_embeddings,  \* stage 1's result: local label -> embedding
  todo,                \* the labels the resolution loop has still to visit
  found,               \* find_similar_speaker's result for the current label
  old_row,             \* update_speaker_embedding's SELECT result
  local_to_global_map, \* the run's local label -> global id
  final_segments,      \* the run's final segments
  processed_read,      \* the processed list a process read (and edits)
  removed_episodes,    \* cleanup: the episodes it removes
  stage_log,           \* the stages a run has completed, in order
  store_failures,      \* the store calls that have raised so far
  subtitle_segments,   \* subtitle-driven mode: the segments handed to the merge
  merged_segments      \* subtitle-driven mode: what the merge returned

store == << speakers, speaker_episodes, processed_episodes >>
config == << similarity_threshold, update_embeddings, update_weight, store_failures >>
merging == << subtitle_segments, merged_segments >>
locals == << episode_num, force, input, speaker_embeddings, todo, found, old_row,
             local_to_global_map, final_segments, processed_read, removed_episodes,
             stage_log >>
vars == << speakers, speaker_episodes, processed_episodes, similarity_threshold,
           update_embeddings, update_weight, pc, episode_num, force, input,
           speaker_embeddings, todo, found, old_row, local_to_global_map,
           final_segments, processed_read, removed_episodes, stage_log,
           store_failures, subtitle_segments, merged_segments >>

EmptyMap == [l \in {} |-> NoSpeaker]
NoInput == [turns |-> << >>, subtitles |-> << >>, voices |-> EmptyMap]
NotFound == [speaker_id |-> NoSpeaker, similarity |-> 0]
NoRow == [embedding |-> << 0, 0 >>, segment_count |-> 0]

\* A fresh database file (init_database creates empty tables) and no process
\* started.
Init ==
  /\ speakers = EmptyMap
  /\ speaker_episodes = {}
  /\ processed_episodes = << >>
  /\ similarity_threshold \in Thresholds
  /\ update_embeddings \in BOOLEAN
  /\ update_weight \in UpdateWeights
  /\ pc = [p \in Procs |-> "idle"]
  /\ episode_num = [p \in Procs |-> 0]
  /\ force = [p \in Procs |-> FALSE]
  /\ input = [p \in Procs |-> NoInput]
  /\ speaker_embeddings = [p \in Procs |-> EmptyMap]
  /\ todo = [p \in Procs |-> << >>]
  /\ found = [p \in Procs |-> NotFound]
  /\ old_row = [p \in Procs |-> NoRow]
  /\ local_to_global_map = [p \in Procs |-> EmptyMap]
  /\ final_segments = [p \in Procs |-> << >>]
  /\ processed_read = [p \in Procs |-> << >>]
  /\ removed_episodes = [p \in Procs |-> {}]
  /\ stage_log = [p \in Procs |-> << >>]
  /\ store_failures = 0
  /\ subtitle_segments = << >>
  /\ merged_segments = << >>

\* ------------------------------------------------------- a run of main()
ExtractedEmbeddings_ZeroFill(valid, voices) ==
  [l \in Elems(valid) |-> IF l \in DOMAIN voices THEN voices[l] ELSE << 0, 0 >>]

\* extract_speaker_level_embeddings: the embedding of every valid speaker
\* whose extraction succeeds
ExtractedEmbeddings(valid, voices) ==
  [l \in Elems(valid) \cap DOMAIN voices |-> voices[l]]

StageAfterLabel_MarkEarly(rest) == IF rest = << >> THEN "mark_read" ELSE "find"

\* Where the run goes when the resolution loop has `rest` still to visit
StageAfterLabel(rest) == IF rest = << >> THEN "build" ELSE "find"

LogAfterLabel(log, rest) == IF rest = << >> THEN Append(log, "resolve") ELSE log

\* main(): the processed-episode check, `sys.exit(0)` unless forced
Start(p) ==
  /\ pc[p] = "idle"
  /\ \E ep \in Episodes, f \in BOOLEAN, inp \in Inputs :
       /\ episode_num' = [episode_num EXCEPT ![p] = ep]
       /\ force' = [force EXCEPT ![p] = f]
       /\ IF AlreadyProcessed(processed_episodes, ep, f)
          THEN /\ pc' = [pc EXCEPT ![p] = "skipped"]
               /\ input' = input
          ELSE /\ pc' = [pc EXCEPT ![p] = "consolidate"]
               /\ input' = [input EXCEPT ![p] = inp]
  /\ UNCHANGED << store, config, speaker_embeddings, todo, found, old_row,
                  local_to_global_map, final_segments, processed_read,
                  removed_episodes, stage_log >>
  /\ UNCHANGED merging

\* segment_by_speaker_level_approach, stage 1: the early returns on no
\* subtitles or no diarization (main() then exits on no valid segments), the
\* duration filter, the extraction
Consolidate(p) ==
  /\ pc[p] = "consolidate"
  /\ IF input[p].subtitles = << >> \/ input[p].turns = << >>
     THEN /\ pc' = [pc EXCEPT ![p] = "exited"]
          /\ UNCHANGED << speaker_embeddings, todo, stage_log >>
     ELSE LET valid == ValidSpeakers(input[p].turns, MinSpeakerDuration)
              emb == ExtractedEmbeddings(valid, input[p].voices)
              order == SelectSeq(valid, LAMBDA l : l \in DOMAIN emb)
          IN /\ speaker_embeddings' = [speaker_embeddings EXCEPT ![p] = emb]
             /\ todo' = [todo EXCEPT ![p] = order]
             /\ stage_log' = [stage_log EXCEPT
                  ![p] = LogAfterLabel(Append(@, "consolidate"), order)]
             /\ pc' = [pc EXCEPT ![p] = StageAfterLabel(order)]
  \* args.force is read by the check above only: the model forgets it here
  /\ force' = [force EXCEPT ![p] = FALSE]
  /\ UNCHANGED << store, config, episode_num, input, found, old_row,
                  local_to_global_map, final_segments, processed_read,
                  removed_episodes >>
  /\ UNCHANGED merging

\* assign_global_speaker_ids_by_embedding: db.find_similar_speaker's scan for
\* the current label
Find(p) ==
  /\ pc[p] = "find"
  /\ LET r == find_similar_speaker(speakers, speaker_embeddings[p][Head(todo[p])],
                                   similarity_threshold)
     IN /\ found' = [found EXCEPT ![p] = r]
        /\ pc' = [pc EXCEPT ![p] =
             IF r.speaker_id # NoSpeaker /\ update_embeddings
             THEN "update_read" ELSE "write"]
  /\ UNCHANGED << store, config, episode_num, force, input, speaker_embeddings, todo,
                  old_row, local_to_global_map, final_segments, processed_read,
                  removed_episodes, stage_log >>
  /\ UNCHANGED merging

\* update_speaker_embedding: its SELECT of the matched speaker's row
UpdateRead(p) ==
  /\ pc[p] = "update_read"
  /\ old_row' = [old_row EXCEPT ![p] =
       [embedding |-> speakers[found[p].speaker_id].embedding,
        segment_count |-> speakers[found[p].speaker_id].segment_count]]
  /\ pc' = [pc EXCEPT ![p] = "update_write"]
  /\ UNCHANGED << store, config, episode_num, force, input, speaker_embeddings, todo,
                  found, local_to_global_map, final_segments, processed_read,
                  removed_episodes, stage_log >>
  /\ UNCHANGED merging

\* update_speaker_embedding: its UPDATE and commit
UpdateWrite(p) ==
  /\ pc[p] = "update_write"
  /\ speakers' = [speakers EXCEPT ![found[p].speaker_id].embedding =
       BlendEmbedding(old_row[p].embedding, old_row[p].segment_count,
                      speaker_embeddings[p][Head(todo[p])], update_weight)]
  /\ old_row' = [old_row EXCEPT ![p] = NoRow]
  /\ pc' = [pc EXCEPT ![p] = "write"]
  /\ UNCHANGED << speaker_episodes, processed_episodes, config, episode_num, force,
                  input, speaker_embeddings, todo, found, local_to_global_map,
                  final_segments, processed_read, removed_episodes, stage_log >>
  /\ UNCHANGED merging

\* assign_global_speaker_ids_by_embedding: db.update_speaker_episode on a
\* match, db.add_speaker otherwise, then the map entry
Write(p) ==
  /\ pc[p] = "write"
  /\ LET local_speaker == Head(todo[p])
         segment_count == Len(SegmentsOf(input[p].turns, local_speaker))
         r == IF found[p].speaker_id # NoSpeaker
              THEN update_speaker_episode(speakers, speaker_episodes,
                     found[p].speaker_id, episode_num[p], local_speaker, segment_count)
                   @@ [speaker_id |-> found[p].speaker_id]
              ELSE add_speaker(speakers, speaker_episodes,
                     speaker_embeddings[p][local_speaker], episode_num[p],
                     local_speaker, segment_count)
     IN /\ speakers' = r.speakers
        /\ speaker_episodes' = r.speaker_episodes
        /\ local_to_global_map' = [local_to_global_map EXCEPT
             ![p] = (local_speaker :> r.speaker_id) @@ @]
  /\ todo' = [todo EXCEPT ![p] = Tail(@)]
  /\ found' = [found EXCEPT ![p] = NotFound]
  /\ stage_log' = [stage_log EXCEPT ![p] = LogAfterLabel(@, Tail(todo[p]))]
  /\ pc' = [pc EXCEPT ![p] = StageAfterLabel(Tail(todo[p]))]
  /\ UNCHANGED << processed_episodes, config, episode_num, force, input,
                  speaker_embeddings, old_row, final_segments, processed_read,
                  removed_episodes >>
  /\ UNCHANGED merging

\* assign_global_speaker_ids_by_embedding: `except Exception: continue`, a
\* store call of the current label raises (the database is locked or
\* unavailable), nothing of the call is committed and the label gets no id
StoreFail(p) ==
  /\ pc[p] \in { "find", "update_read", "update_write", "write" }
  /\ store_failures < MaxStoreFailures
  /\ store_failures' = store_failures + 1
  /\ todo' = [todo EXCEPT ![p] = Tail(@)]
  /\ found' = [found EXCEPT ![p] = NotFound]
  /\ old_row' = [old_row EXCEPT ![p] = NoRow]
  /\ stage_log' = [stage_log EXCEPT ![p] = LogAfterLabel(@, Tail(todo[p]))]
  /\ pc' = [pc EXCEPT ![p] = StageAfterLabel(Tail(todo[p]))]
  /\ UNCHANGED << store, similarity_threshold, update_embeddings, update_weight,
                  episode_num, force, input, speaker_embeddings,
                  local_to_global_map, final_segments, processed_read,
                  removed_episodes >>
  /\ UNCHANGED merging

\* generate_final_segments_with_subtitles, then main(): `if not
\* valid_segments: sys.exit(0)`
Build(p) ==
  /\ pc[p] = "build"
  /\ LET segments == generate_final_segments_with_subtitles(
                       input[p].subtitles, input[p].turns, local_to_global_map[p],
                       MinDuration, MaxDuration)
     IN /\ final_segments' = [final_segments EXCEPT ![p] = segments]
        /\ pc' = [pc EXCEPT ![p] = IF segments = << >> THEN "exited" ELSE "mark_read"]
  /\ stage_log' = [stage_log EXCEPT ![p] = Append(@, "build")]
  /\ UNCHANGED << store, config, episode_num, force, input, speaker_embeddings, todo,
                  found, old_row, local_to_global_map, processed_read,
                  removed_episodes >>
  /\ UNCHANGED merging

\* mark_episode_processed: get_processed_episodes()
MarkRead(p) ==
  /\ pc[p] = "mark_read"
  /\ processed_read' = [processed_read EXCEPT ![p] = processed_episodes]
  /\ pc' = [pc EXCEPT ![p] = "mark_write"]
  /\ UNCHANGED << store, config, episode_num, force, input, speaker_embeddings, todo,
                  found, old_row, local_to_global_map, final_segments,
                  removed_episodes, stage_log >>
  /\ UNCHANGED merging

\* mark_episode_processed: the write of the list, when the episode was not
\* in the list read
MarkWrite(p) ==
  /\ pc[p] = "mark_write"
  /\ processed_episodes' =
       IF NeedsMarking(processed_read[p], episode_num[p])
       THEN MarkedList(processed_read[p], episode_num[p])
       ELSE processed_episodes
  /\ processed_read' = [processed_read EXCEPT ![p] = << >>]
  /\ stage_log' = [stage_log EXCEPT ![p] = Append(@, "mark")]
  /\ pc' = [pc EXCEPT ![p] = "done"]
  /\ UNCHANGED << speakers, speaker_episodes, config, episode_num, force, input,
                  speaker_embeddings, todo, found, old_row, local_to_global_map,
                  final_segments, removed_episodes >>
  /\ UNCHANGED merging

\* The process of a run dies (a crash, a kill, an uncaught error of an
\* external call) before it has marked the episode: its memory is gone
Crash(p) ==
  /\ pc[p] \in { "consolidate", "find", "update_read", "update_write", "write",
                 "build", "mark_read", "mark_write" }
  /\ pc' = [pc EXCEPT ![p] = "crashed"]
  /\ input' = [input EXCEPT ![p] = NoInput]
  /\ speaker_embeddings' = [speaker_embeddings EXCEPT ![p] = EmptyMap]
  /\ todo' = [todo EXCEPT ![p] = << >>]
  /\ found' = [found EXCEPT ![p] = NotFound]
  /\ old_row' = [old_row EXCEPT ![p] = NoRow]
  /\ local_to_global_map' = [local_to_global_map EXCEPT ![p] = EmptyMap]
  /\ final_segments' = [final_segments EXCEPT ![p] = << >>]
  /\ processed_read' = [processed_read EXCEPT ![p] = << >>]
  /\ UNCHANGED << store, config, episode_num, force, removed_episodes, stage_log >>
  /\ UNCHANGED merging

\* --------------------------------------------- database_cleanup.py remove
\* remove_episodes_from_database: the read of the processed list and the
\* removal of the named episodes from it
CleanupRead(p) ==
  /\ pc[p] = "idle"
  /\ \E E \in (SUBSET Episodes) \ {{}} :
       LET removed == E \cap Elems(processed_episodes)
       IN /\ removed_episodes' = [removed_episodes EXCEPT ![p] = removed]
          /\ processed_read' = [processed_read EXCEPT ![p] =
               IF removed = {} THEN << >>
               ELSE SelectSeq(processed_episodes, LAMBDA e : e \notin E)]
          /\ pc' = [pc EXCEPT ![p] =
               IF removed = {} THEN "cleanup_none" ELSE "cleanup_write"]
  /\ UNCHANGED << store, config, episode_num, force, input, speaker_embeddings, todo,
                  found, old_row, local_to_global_map, final_segments, stage_log >>
  /\ UNCHANGED merging

\* remove_episodes_from_database: the write of the list and the DELETE of the
\* removed episodes' rows, one transaction
CleanupWrite(p) ==
  /\ pc[p] = "cleanup_write"
  /\ processed_episodes' = processed_read[p]
  /\ speaker_episodes' = { r \in speaker_episodes : r.episode_num \notin removed_episodes[p] }
  /\ processed_read' = [processed_read EXCEPT ![p] = << >>]
  /\ pc' = [pc EXCEPT ![p] = "cleaned"]
  /\ UNCHANGED << speakers, config, episode_num, force, input, speaker_embeddings, todo,
                  found, old_row, local_to_global_map, final_segments,
                  removed_episodes, stage_log >>
  /\ UNCHANGED merging

Next ==
  \E p \in Procs :
    \/ Start(p)
    \/ Consolidate(p)
    \/ Find(p)
    \/ UpdateRead(p)
    \/ UpdateWrite(p)
    \/ Write(p)
    \/ StoreFail(p)
    \/ Build(p)
    \/ MarkRead(p)
    \/ MarkWrite(p)
    \/ Crash(p)
    \/ CleanupRead(p)
    \/ CleanupWrite(p)

Spec == Init /\ [][Next]_vars

\* ------------------------------------- the segment builder on its own
\* generate_final_segments_with_subtitles applied to any subtitle list (the
\* lines of the subtitle file in file order, sorted or not), any detector
\* turns (overlapping or not) and any map.
BuilderTimes == { 0, 10, 30, 200 }

BuilderTurnSet ==
  { Turn("A", 0, 25), Turn("B", 25, 30), Turn("B", 0, 25), Turn("A", 30, 200) }

SeqsUpTo(S, n) == UNION { [1..k -> S] : k \in 0..n }

BuilderMaps ==
  { EmptyMap,
    [l \in {"A"} |-> 1],
    [l \in {"B"} |-> 2],
    [l \in {"A", "B"} |-> IF l = "A" THEN 1 ELSE 2],
    [l \in {"A", "B"} |-> 1] }

\* Process 1 stands at the call of generate_final_segments_with_subtitles
BuilderInit ==
  /\ speakers = EmptyMap
  /\ speaker_episodes = {}
  /\ processed_episodes = << >>
  /\ similarity_threshold = 85
  /\ update_embeddings = FALSE
  /\ update_weight = 1
  /\ pc = [p \in Procs |-> IF p = 1 THEN "build" ELSE "idle"]
  /\ episode_num = [p \in Procs |-> IF p = 1 THEN 1 ELSE 0]
  /\ force = [p \in Procs |-> FALSE]
  /\ \E subtitles \in SeqsUpTo(BuilderTimes, MaxLines),
        turns \in SeqsUpTo(BuilderTurnSet, MaxTurns) :
       input = [p \in Procs |->
                  IF p = 1
                  THEN [turns |-> turns, subtitles |-> subtitles, voices |-> EmptyMap]
                  ELSE NoInput]
  /\ speaker_embeddings = [p \in Procs |-> EmptyMap]
  /\ todo = [p \in Procs |-> << >>]
  /\ found = [p \in Procs |-> NotFound]
  /\ old_row = [p \in Procs |-> NoRow]
  /\ \E map \in BuilderMaps :
       local_to_global_map = [p \in Procs |-> IF p = 1 THEN map ELSE EmptyMap]
  /\ final_segments = [p \in Procs |-> << >>]
  /\ processed_read = [p \in Procs |-> << >>]
  /\ removed_episodes = [p \in Procs |-> {}]
  /\ stage_log = [p \in Procs |-> << >>]
  /\ store_failures = 0
  /\ subtitle_segments = << >>
  /\ merged_segments = << >>

BuilderNext == Build(1)

BuilderSpec == BuilderInit /\ [][BuilderNext]_vars

\* ------------------------------------------- runs one after the other
\* The driver run for one episode after the other on the one database, as a
\* batch does: process 2 starts when process 1 has ended, and no store call
\* raises.
Terminal(p) == pc[p] \in { "done", "exited", "skipped" }

SoloStep(p) ==
  \/ Start(p)
  \/ Consolidate(p)
  \/ Find(p)
  \/ UpdateRead(p)
  \/ UpdateWrite(p)
  \/ Write(p)
  \/ Build(p)
  \/ MarkRead(p)
  \/ MarkWrite(p)

SequentialNext ==
  \/ SoloStep(1)
  \/ Terminal(1) /\ SoloStep(2)

SequentialSpec == Init /\ [][SequentialNext]_vars

\* ================================================================ claims
\* A process is inside a resolution call: its scan is done, its write is not.
InsideMatchOrRegister(p) == pc[p] \in { "update_read", "update_write", "write" }

\* This step is a committed add_speaker, update_speaker_episode or
\* update_speaker_embedding of process q.
MutatingCallBy(q) ==
  /\ pc[q] \in { "update_write", "write" }
  /\ pc'[q] # pc[q]
  /\ << speakers, speaker_episodes >>' # << speakers, speaker_episodes >>

\* C1: MatchOrRegister is one critical section: while one resolution call is
\* between its similarity scan and its insert-or-update write, no other
\* process commits a mutating store call.
C1_CriticalSection ==
  [][ \A p, q \in Procs :
        (p # q /\ InsideMatchOrRegister(p)) => ~MutatingCallBy(q) ]_vars

\* The speakers registered for neither of the two (episode, label) pairs.
OtherSpeakers(k1, k2) ==
  { s \in DOMAIN speakers :
      << speakers[s].note_episode, speakers[s].note_label >> \notin { k1, k2 } }

Similar(a, b) == CosineSimilarity(a, b) > similarity_threshold

\* C2: no duplicate identity under concurrent episodes: two runs of two
\* episodes that each resolved a local speaker, the two signatures similar above the threshold
\* and no other stored speaker similar to either, registered at most one
\* speaker for the two and map both labels to the same global id.
C2_NoDuplicateIdentity ==
  \A p, q \in Procs :
    \A lp \in DOMAIN local_to_global_map[p], lq \in DOMAIN local_to_global_map[q] :
      LET ep == speaker_embeddings[p][lp]
          eq == speaker_embeddings[q][lq]
          kp == << episode_num[p], lp >>
          kq == << episode_num[q], lq >>
      IN ( /\ p # q
           /\ episode_num[p] # episode_num[q]
           /\ Similar(ep, eq)
           /\ \A s \in OtherSpeakers(kp, kq) :
                /\ ~Similar(ep, speakers[s].embedding)
                /\ ~Similar(eq, speakers[s].embedding) )
         => /\ local_to_global_map[p][lp] = local_to_global_map[q][lq]
            /\ Cardinality(DOMAIN speakers \ OtherSpeakers(kp, kq)) <= 1

\* The scan step of process p.
FindStep(p) == pc[p] = "find" /\ pc'[p] \in { "update_read", "write" }

\* The committed write step of process p (not a failed call, not a crash).
WriteStep(p) ==
  /\ pc[p] = "write"
  /\ pc'[p] \in { "find", "build", "mark_read" }
  /\ store_failures' = store_failures

\* C3: the threshold comparison is strict: a scan reports a match exactly when
\* some stored speaker's similarity is strictly greater than the threshold, a
\* best similarity equal to the threshold is no match and the write that
\* follows registers a new speaker, and a stored signature identical to the
\* query (similarity 1.0) is a match.
C3_StrictThreshold ==
  [][ \A p \in Procs :
        /\ FindStep(p) =>
             LET e == speaker_embeddings[p][Head(todo[p])]
                 sims == { CosineSimilarity(e, speakers[s].embedding) : s \in DOMAIN speakers }
             IN /\ (found'[p].speaker_id # NoSpeaker)
                     <=> (\E x \in sims : x > similarity_threshold)
                /\ (sims # {} /\ SetMax(sims) = similarity_threshold)
                     => found'[p].speaker_id = NoSpeaker
                /\ (\E s \in DOMAIN speakers :
                      speakers[s].embedding = e /\ CosineSimilarity(e, e) = 100)
                     => found'[p].speaker_id # NoSpeaker
        /\ (WriteStep(p) /\ found[p].speaker_id = NoSpeaker) =>
             Cardinality(DOMAIN speakers') = Cardinality(DOMAIN speakers) + 1 ]_vars

\* A scan whose best similarity equals the threshold has reported no match.
C3_Witness ==
  \E p \in Procs :
    /\ pc[p] = "write"
    /\ found[p].speaker_id = NoSpeaker
    /\ found[p].similarity = similarity_threshold

\* The committed write step of process p on a match, and on no match.
MatchWriteStep(p) == WriteStep(p) /\ found[p].speaker_id # NoSpeaker
RegisterWriteStep(p) == WriteStep(p) /\ found[p].speaker_id = NoSpeaker

\* The episodes a speaker has appearance rows for.
AppearanceEpisodes(app, s) == { r.episode_num : r \in { x \in app : x.speaker_id = s } }

NoCleanupYet == \A p \in Procs : pc[p] # "cleaned"

\* C4: on a match no speaker is created, the (speaker_id, episode_num) row is
\* replaced or inserted, the call's segment_count is added to the speaker's,
\* and episode_count becomes the number of distinct episodes of the speaker's
\* rows: it grows by one when the episode is new for the speaker and is
\* unchanged otherwise; and as long as only resolutions have written, every
\* speaker's episode_count is its number of distinct appearance episodes.
C4_MatchUpdatesCounters ==
  [][ /\ \A p \in Procs :
           MatchWriteStep(p) =>
             LET s == found[p].speaker_id
                 l == Head(todo[p])
                 n == Len(SegmentsOf(input[p].turns, l))
                 row == AppearanceRow(s, episode_num[p], l, n)
                 SameKey(r) == r.speaker_id = s /\ r.episode_num = episode_num[p]
                 isNew == episode_num[p] \notin AppearanceEpisodes(speaker_episodes, s)
             IN /\ DOMAIN speakers' = DOMAIN speakers
                /\ row \in speaker_episodes'
                /\ \A r \in speaker_episodes' : SameKey(r) => r = row
                /\ \A r \in speaker_episodes \cup speaker_episodes' :
                     ~SameKey(r) => (r \in speaker_episodes <=> r \in speaker_episodes')
                /\ speakers'[s].segment_count = speakers[s].segment_count + n
                /\ speakers'[s].episode_count
                     = Cardinality(AppearanceEpisodes(speaker_episodes', s))
                /\ NoCleanupYet =>
                     speakers'[s].episode_count
                       = speakers[s].episode_count + (IF isNew THEN 1 ELSE 0)
                /\ local_to_global_map'[p][l] = s
      /\ NoCleanupYet' =>
           \A s \in DOMAIN speakers' :
             speakers'[s].episode_count
               = Cardinality(AppearanceEpisodes(speaker_episodes', s)) ]_vars

\* A run has matched a speaker that another episode registered: the speaker
\* has two appearance rows and episode_count 2.
C4_Witness ==
  /\ NoCleanupYet
  /\ \E p \in Procs :
       \E l \in DOMAIN local_to_global_map[p] :
         LET s == local_to_global_map[p][l]
         IN /\ speakers[s].note_episode # episode_num[p]
            /\ speakers[s].episode_count = 2
            /\ Cardinality({ r \in speaker_episodes : r.speaker_id = s }) = 2

\* C5: with no match the write inserts exactly one new speaker, under an id
\* the store did not hold, with the given signature, episode_count 1 and the
\* call's segment_count, and records its first appearance row; the first
\* speaker of an empty store gets id 1.
C5_RegisterNewSpeaker ==
  [][ \A p \in Procs :
        RegisterWriteStep(p) =>
          LET l == Head(todo[p])
              n == Len(SegmentsOf(input[p].turns, l))
              s == local_to_global_map'[p][l]
          IN /\ s \notin DOMAIN speakers
             /\ DOMAIN speakers' = DOMAIN speakers \cup {s}
             /\ \A t \in DOMAIN speakers : speakers'[t] = speakers[t]
             /\ speakers'[s].embedding = speaker_embeddings[p][l]
             /\ speakers'[s].episode_count = 1
             /\ speakers'[s].segment_count = n
             /\ speaker_episodes'
                  = speaker_episodes \cup { AppearanceRow(s, episode_num[p], l, n) }
             /\ AppearanceRow(s, episode_num[p], l, n) \notin speaker_episodes
             /\ (DOMAIN speakers = {}) => s = 1 ]_vars

\* A run has registered the first speaker of the store.
C5_Witness ==
  \E p \in Procs :
    \E l \in DOMAIN local_to_global_map[p] :
      /\ local_to_global_map[p][l] = 1
      /\ 1 \in DOMAIN speakers
      /\ speakers[1].note_episode = episode_num[p]
      /\ speakers[1].note_label = l
      /\ speakers[1].episode_count = 1

\* C6: ids are the store's, increase with registration and are never reused,
\* and no speaker is deleted or renumbered: every step keeps every id with
\* the record it denoted, a new id is greater than all ids before it, and
\* every id a run holds is an id of the store.
C6_StableIds ==
  [][ /\ \A s \in DOMAIN speakers :
           /\ s \in DOMAIN speakers'
           /\ speakers'[s].note_episode = speakers[s].note_episode
           /\ speakers'[s].note_label = speakers[s].note_label
      /\ \A s \in DOMAIN speakers' \ DOMAIN speakers :
           /\ s >= 1
           /\ \A t \in DOMAIN speakers : s > t
      /\ \A p \in Procs :
           \A l \in DOMAIN local_to_global_map'[p] :
             local_to_global_map'[p][l] \in DOMAIN speakers' ]_vars

\* A cleanup has removed an episode of a store that holds two speakers.
C6_Witness ==
  /\ \E p \in Procs : pc[p] = "cleaned"
  /\ { 1, 2 } \subseteq DOMAIN speakers
  /\ speaker_episodes = {}

\* C7: there is at most one appearance row per (speaker_id, episode_num).
C7_UniqueAppearance ==
  \A r1, r2 \in speaker_episodes :
    (r1.speaker_id = r2.speaker_id /\ r1.episode_num = r2.episode_num) => r1 = r2

\* An episode was processed again and one of its speakers resolved twice: the
\* pair was inserted by the first run and again by the second.
C7_Witness ==
  \E p, q \in Procs :
    /\ p # q
    /\ pc[p] = "done"
    /\ episode_num[p] = episode_num[q]
    /\ \E lp \in DOMAIN local_to_global_map[p], lq \in DOMAIN local_to_global_map[q] :
         /\ local_to_global_map[p][lp] = local_to_global_map[q][lq]
         /\ lp # lq

\* The mark step of process p.
MarkStep(p) == pc[p] = "mark_write" /\ pc'[p] = "done"

\* C8: marking is idempotent: a mark call that no other write interleaves
\* leaves the episode in the processed list, a mark of an episode already in
\* the list leaves the list as it was, the list holds no episode twice, and a
\* mark changes nothing else of the store.
C8_MarkIdempotent ==
  [][ \A p \in Procs :
        MarkStep(p) =>
          /\ speakers' = speakers
          /\ speaker_episodes' = speaker_episodes
          /\ processed_read[p] = processed_episodes =>
               /\ episode_num[p] \in Elems(processed_episodes')
               /\ episode_num[p] \in Elems(processed_episodes)
                    => processed_episodes' = processed_episodes
               /\ Cardinality(Elems(processed_episodes')) = Len(processed_episodes')
               /\ Elems(processed_episodes')
                    = Elems(processed_episodes) \cup { episode_num[p] } ]_vars

\* Two runs have marked the same episode.
C8_Witness ==
  \E p, q \in Procs :
    /\ p # q
    /\ pc[p] = "done"
    /\ pc[q] = "done"
    /\ episode_num[p] = episode_num[q]
    /\ episode_num[p] \in Elems(processed_episodes)

AllStages == << "consolidate", "resolve", "build", "mark" >>

StartStep(p) == pc[p] = "idle" /\ pc'[p] \in { "skipped", "consolidate" }

\* C10: a run of an episode in the processed list without force is skipped:
\* it changes nothing of the store and never resolves; with force, or for an
\* episode not in the list, the run goes on to process the episode.
C10_SkipUnlessForced ==
  [][ \A p \in Procs :
        /\ StartStep(p) =>
             /\ store' = store
             /\ (episode_num'[p] \in Elems(processed_episodes) /\ ~force'[p])
                  => pc'[p] = "skipped"
             /\ (episode_num'[p] \in Elems(processed_episodes) /\ force'[p])
                  => pc'[p] = "consolidate"
             /\ (episode_num'[p] \notin Elems(processed_episodes))
                  => pc'[p] = "consolidate"
        /\ pc[p] = "skipped" =>
             /\ pc'[p] = "skipped"
             /\ local_to_global_map'[p] = EmptyMap
             /\ stage_log'[p] = << >> ]_vars

\* A run without force was skipped for an episode that another run had
\* processed and marked.
C10_Witness ==
  \E p, q \in Procs :
    /\ pc[p] = "skipped"
    /\ ~force[p]
    /\ episode_num[p] \in Elems(processed_episodes)
    /\ episode_num[q] = episode_num[p]
    /\ pc[q] = "done"
    /\ DOMAIN speakers # {}

\* The resolution pass of process p has returned its map.
ResolutionDone(p) ==
  \/ pc[p] \in { "build", "mark_read", "mark_write", "done" }
  \/ pc[p] = "exited" /\ Len(stage_log[p]) >= 2

\* C11: the resolution pass resolves each consolidated local speaker once
\* (a label is written to the map once, when the loop visits it), and the
\* map the pass returns is total on the labels that were handed to it with a
\* signature.
C11_TotalMap ==
  [][ \A p \in Procs :
        /\ WriteStep(p) =>
             /\ Head(todo[p]) \notin DOMAIN local_to_global_map[p]
             /\ DOMAIN local_to_global_map'[p]
                  = DOMAIN local_to_global_map[p] \cup { Head(todo[p]) }
        /\ ResolutionDone(p)' =>
             DOMAIN local_to_global_map'[p] = DOMAIN speaker_embeddings'[p] ]_vars

\* A pass in which a store call raised: it has returned, and a label that
\* was handed to it has no id.
FailedPass(p) ==
  /\ ResolutionDone(p)
  /\ DOMAIN local_to_global_map[p] # DOMAIN speaker_embeddings[p]

\* No other process works on the episode of process p.
AloneOnEpisode(p) == \A q \in Procs : q # p => episode_num[q] # episode_num[p]

\* C12: a store failure during resolution is fatal to the episode: the run
\* does not go on to build segments or to mark, nothing its pass wrote about
\* the episode stays committed, and the episode is not put in the processed
\* list.
C12_StoreFailureFatal ==
  \A p \in Procs :
    FailedPass(p) =>
      /\ final_segments[p] = << >>
      /\ pc[p] \notin { "mark_read", "mark_write", "done" }
      /\ AloneOnEpisode(p) =>
           /\ \A r \in speaker_episodes : r.episode_num # episode_num[p]
           /\ \A s \in DOMAIN speakers : speakers[s].note_episode # episode_num[p]
           /\ episode_num[p] \notin Elems(processed_episodes)

\* The whole of the failure: a run whose second label's store call raised has
\* kept the first label's row, built segments from the partial map and marked
\* the episode.
C12_PartialRunMarked ==
  \E p \in Procs :
    /\ FailedPass(p)
    /\ AloneOnEpisode(p)
    /\ pc[p] = "done"
    /\ final_segments[p] # << >>
    /\ \E r \in speaker_episodes : r.episode_num = episode_num[p]
    /\ episode_num[p] \in Elems(processed_episodes)

\* The local speakers of process p's episode that pass the duration filter
\* and whose extraction fails.
FailedLabels(p) ==
  Elems(ValidSpeakers(input[p].turns, MinSpeakerDuration)) \ DOMAIN input[p].voices

\* C13: a local speaker whose extraction fails is absent from the
\* consolidator's output, is never visited by the resolution loop (no store
\* call, no row, no map entry) and no final segment is attributed to it; the
\* other local speakers of the episode are resolved all the same.
C13_ExtractionFailureSkipsLabel ==
  \A p \in Procs :
    /\ \A l \in FailedLabels(p) :
         /\ l \notin DOMAIN speaker_embeddings[p]
         /\ l \notin Elems(todo[p])
         /\ l \notin DOMAIN local_to_global_map[p]
         /\ \A i \in 1..Len(final_segments[p]) :
              get_dominant_speaker_in_range(input[p].turns, final_segments[p][i].start,
                                            final_segments[p][i].end) # l
         /\ AloneOnEpisode(p) =>
              \A r \in speaker_episodes :
                ~(r.episode_num = episode_num[p] /\ r.local_label = l)
    /\ (ResolutionDone(p) /\ store_failures = 0) =>
         DOMAIN local_to_global_map[p]
           = Elems(ValidSpeakers(input[p].turns, MinSpeakerDuration))
               \cap DOMAIN input[p].voices

\* A run with a failed extraction has resolved its other speaker, emitted a
\* segment and completed.
C13_Witness ==
  \E p \in Procs :
    /\ FailedLabels(p) # {}
    /\ pc[p] = "done"
    /\ DOMAIN local_to_global_map[p] # {}
    /\ final_segments[p] # << >>
    /\ episode_num[p] \in Elems(processed_episodes)

\* The norm of a stored signature is 1.0, to the precision of the grid.
UnitNorm(v) == Norm(v) \in 98..101

\* C18: every persisted signature has dimension D and unit norm, whatever
\* scale the extractor returned.
C18_StoredSignaturesUnitNorm ==
  \A s \in DOMAIN speakers :
    /\ Len(speakers[s].embedding) = 2
    /\ UnitNorm(speakers[s].embedding)

\* The update step of process p's matched speaker, its read not overtaken by
\* another write of the row.
BlendStep(p) ==
  /\ pc[p] = "update_write"
  /\ pc'[p] = "write"
  /\ store_failures' = store_failures
  /\ old_row[p].embedding = speakers[found[p].speaker_id].embedding
  /\ old_row[p].segment_count = speakers[found[p].speaker_id].segment_count

\* normalize(v), computed on the unscaled sum
Normalized(v) ==
  LET n == Norm(v) IN << (v[1] * 100) \div n, (v[2] * 100) \div n >>

\* Two signatures agree to the precision of the grid.
Close(a, b) ==
  /\ a[1] - b[1] \in -2..2
  /\ a[2] - b[2] \in -2..2

\* C19: with update on match enabled a match replaces the stored signature by
\* normalize(w_old * old + w_new * new), w_old = max(1, segment_count) of the
\* matched speaker and w_new the configured weight, of unit norm; with it
\* disabled a match leaves the stored signature as it was.
C19_BlendOnMatch ==
  [][ \A p \in Procs :
        /\ BlendStep(p) =>
             LET s == found[p].speaker_id
                 old == speakers[s].embedding
                 new == speaker_embeddings[p][Head(todo[p])]
                 w_old == IF speakers[s].segment_count > 1
                          THEN speakers[s].segment_count ELSE 1
                 w_new == update_weight
                 sum == << w_old * old[1] + w_new * new[1],
                           w_old * old[2] + w_new * new[2] >>
             IN /\ update_embeddings
                /\ Close(speakers'[s].embedding, Normalized(sum))
                /\ UnitNorm(speakers'[s].embedding)
                /\ \A t \in DOMAIN speakers \ {s} : speakers'[t] = speakers[t]
        /\ MatchWriteStep(p) =>
             /\ speakers'[found[p].speaker_id].embedding
                  = speakers[found[p].speaker_id].embedding
             /\ ~update_embeddings =>
                  \A s \in DOMAIN speakers : speakers'[s].embedding = speakers[s].embedding
        /\ ~update_embeddings => pc'[p] \notin { "update_read", "update_write" } ]_vars

\* A match has blended a new signature into a stored one: the stored
\* signature is none the extractor returned.
C19_Witness ==
  /\ update_embeddings
  /\ \E s \in DOMAIN speakers :
       /\ speakers[s].embedding \notin Sigs
       /\ speakers[s].episode_count = 2

\* C20: two runs that mark different episodes concurrently both leave their
\* episode in the processed list.
C20_ConcurrentMarks ==
  \A p, q \in Procs :
    (p # q /\ pc[p] = "done" /\ pc[q] = "done" /\ episode_num[p] # episode_num[q])
      => { episode_num[p], episode_num[q] } \subseteq Elems(processed_episodes)

\* The segment builder of process p has returned.
Built(p) == \E i \in 1..Len(stage_log[p]) : stage_log[p][i] = "build"

\* C14: every final segment the builder emits lasts at least min_duration
\* and at most max_duration.
C14_SegmentDurations ==
  \A p \in Procs :
    \A i \in 1..Len(final_segments[p]) :
      LET duration == final_segments[p][i].end - final_segments[p][i].start
      IN MinDuration <= duration /\ duration <= MaxDuration

\* The builder has emitted a segment of exactly min_duration and one cut to
\* exactly max_duration, and has dropped a line.
C14_Witness ==
  \E p \in Procs :
    /\ Built(p)
    /\ \E i, j \in 1..Len(final_segments[p]) :
         /\ final_segments[p][i].end - final_segments[p][i].start = MinDuration
         /\ final_segments[p][j].end - final_segments[p][j].start = MaxDuration
    /\ Len(final_segments[p]) < Len(input[p].subtitles)

\* The overlap of a detector turn with the window [s, e)
Overlap(t, s, e) ==
  (IF e < t.end THEN e ELSE t.end) - (IF s > t.start THEN s ELSE t.start)

\* The labels with a turn that overlaps the window
OverlappingLabels(turns, s, e) ==
  { turns[i].label : i \in { k \in 1..Len(turns) : Overlap(turns[k], s, e) > 0 } }

TotalOverlap(turns, l, s, e) ==
  SeqSum([i \in 1..Len(turns) |->
            IF turns[i].label = l /\ Overlap(turns[i], s, e) > 0
            THEN Overlap(turns[i], s, e) ELSE 0])

\* The place of the first turn of label l that overlaps the window
FirstOverlap(turns, l, s, e) ==
  CHOOSE i \in 1..Len(turns) :
    /\ turns[i].label = l /\ Overlap(turns[i], s, e) > 0
    /\ \A j \in 1..(i - 1) : ~(turns[j].label = l /\ Overlap(turns[j], s, e) > 0)

Windows == { w \in BuilderTimes \X BuilderTimes : w[1] < w[2] }

\* C15: the dominant speaker of a window is the label with the largest summed
\* overlap over all detector turns; among labels that tie for the largest
\* sum it is the one whose first overlapping turn comes first; it is no label
\* when no turn overlaps.
C15_DominantSpeaker ==
  \A p \in Procs :
    \A w \in Windows :
      LET turns == input[p].turns
          s == w[1]
          e == w[2]
          l == get_dominant_speaker_in_range(turns, s, e)
          labels == OverlappingLabels(turns, s, e)
      IN IF labels = {} THEN l = NoLabel
         ELSE /\ l \in labels
              /\ \A m \in labels :
                   /\ TotalOverlap(turns, m, s, e) <= TotalOverlap(turns, l, s, e)
                   /\ (m # l /\ TotalOverlap(turns, m, s, e) = TotalOverlap(turns, l, s, e))
                        => FirstOverlap(turns, l, s, e) < FirstOverlap(turns, m, s, e)

\* B and A tie on the window [0.0, 3.0) and B, whose turn comes first, is
\* dominant and gets the segment; on [1.0, 20.0) A is dominant by the sum of
\* its two turns.
C15_Witness ==
  \E p \in Procs :
    /\ Built(p)
    /\ input[p].turns = << Turn("B", 0, 25), Turn("A", 0, 25), Turn("A", 30, 200) >>
    /\ TotalOverlap(input[p].turns, "A", 0, 30) = TotalOverlap(input[p].turns, "B", 0, 30)
    /\ get_dominant_speaker_in_range(input[p].turns, 0, 30) = "B"
    /\ get_dominant_speaker_in_range(input[p].turns, 10, 200) = "A"
    /\ "B" \in DOMAIN local_to_global_map[p]
    /\ \E i \in 1..Len(final_segments[p]) :
         /\ final_segments[p][i].start = 0
         /\ final_segments[p][i].end = 30
         /\ final_segments[p][i].speaker_id = local_to_global_map[p]["B"]

\* The window of subtitle line i
LineStart(subtitles, i) == subtitles[i]
LineEnd(subtitles, i) ==
  LET next == IF i < Len(subtitles) THEN subtitles[i + 1]
              ELSE subtitles[i] + (IF TailEstimate < MaxDuration
                                   THEN TailEstimate ELSE MaxDuration)
  IN IF next < subtitles[i] + MaxDuration THEN next ELSE subtitles[i] + MaxDuration

HasSegment(segments, s, e) ==
  \E k \in 1..Len(segments) : segments[k].start = s /\ segments[k].end = e

\* C16: a subtitle line whose window no detector turn overlaps, or whose
\* dominant label is not in the local-to-global map, produces no segment;
\* every segment emitted carries the id the map gives to the dominant label
\* of its window; and a line of admissible duration whose dominant label is
\* mapped produces its segment.
C16_SegmentSpeaker ==
  \A p \in Procs :
    Built(p) =>
      LET turns == input[p].turns
          subtitles == input[p].subtitles
          map == local_to_global_map[p]
          segments == final_segments[p]
      IN /\ \A k \in 1..Len(segments) :
              LET l == get_dominant_speaker_in_range(turns, segments[k].start,
                                                     segments[k].end)
              IN /\ l \in DOMAIN map
                 /\ segments[k].speaker_id = map[l]
         /\ \A i \in 1..Len(subtitles) :
              LET s == LineStart(subtitles, i)
                  e == LineEnd(subtitles, i)
                  l == get_dominant_speaker_in_range(turns, s, e)
              IN /\ (OverlappingLabels(turns, s, e) = {} \/ l \notin DOMAIN map)
                      => ~HasSegment(segments, s, e)
                 /\ (e - s >= MinDuration /\ e - s <= MaxDuration
                     /\ OverlappingLabels(turns, s, e) # {} /\ l \in DOMAIN map)
                      => HasSegment(segments, s, e)

\* One line's dominant label is unmapped and the line is dropped, another
\* line's segment carries the id of its dominant label B while A, which
\* overlaps the window too, is mapped to another id.
C16_Witness ==
  \E p \in Procs :
    /\ Built(p)
    /\ DOMAIN local_to_global_map[p] = { "A", "B" }
    /\ local_to_global_map[p]["A"] # local_to_global_map[p]["B"]
    /\ \E k \in 1..Len(final_segments[p]) :
         LET s == final_segments[p][k].start
             e == final_segments[p][k].end
         IN /\ OverlappingLabels(input[p].turns, s, e) = { "A", "B" }
            /\ get_dominant_speaker_in_range(input[p].turns, s, e) = "B"
            /\ final_segments[p][k].speaker_id = local_to_global_map[p]["B"]
    /\ \E i \in 1..Len(input[p].subtitles) :
         /\ OverlappingLabels(input[p].turns, LineStart(input[p].subtitles, i),
                              LineEnd(input[p].subtitles, i)) = {}
         /\ ~HasSegment(final_segments[p], LineStart(input[p].subtitles, i),
                        LineEnd(input[p].subtitles, i))

\* What a run computes from the store it starts on and its inputs, as a
\* function.  The local speakers it resolves: those of at least
\* min_speaker_duration with an extracted signature, in the order of their
\* first detector turn.
FirstTurn(turns, l) ==
  CHOOSE i \in 1..Len(turns) :
    turns[i].label = l /\ \A j \in 1..(i - 1) : turns[j].label # l

TurnsOf(turns, l) == { i \in 1..Len(turns) : turns[i].label = l }

TotalDuration(turns, l) ==
  SeqSum([i \in 1..Len(turns) |->
            IF turns[i].label = l THEN turns[i].end - turns[i].start ELSE 0])

ResolvedLabels(inp) ==
  { l \in DOMAIN inp.voices :
      TurnsOf(inp.turns, l) # {} /\ TotalDuration(inp.turns, l) >= MinSpeakerDuration }

ResolutionOrder(inp) ==
  CHOOSE f \in [1..Cardinality(ResolvedLabels(inp)) -> ResolvedLabels(inp)] :
    \A i, j \in DOMAIN f :
      i < j => FirstTurn(inp.turns, f[i]) < FirstTurn(inp.turns, f[j])

\* One match-or-register per label of `order`, each on the store the one
\* before it left
RECURSIVE ResolveAll(_, _, _, _)
ResolveAll(st, order, ep, inp) ==
  IF order = << >> THEN st
  ELSE LET l == Head(order)
           e == inp.voices[l]
           n == Cardinality(TurnsOf(inp.turns, l))
           r == find_similar_speaker(st.speakers, e, similarity_threshold)
           sid == r.speaker_id
       IN IF sid # NoSpeaker
          THEN LET spk == IF update_embeddings
                          THEN [st.speakers EXCEPT ![sid].embedding =
                                  BlendEmbedding(@, st.speakers[sid].segment_count, e,
                                                 update_weight)]
                          ELSE st.speakers
                   u == update_speaker_episode(spk, st.speaker_episodes, sid, ep, l, n)
               IN ResolveAll([st EXCEPT !.speakers = u.speakers,
                                        !.speaker_episodes = u.speaker_episodes,
                                        !.map = (l :> sid) @@ @],
                             Tail(order), ep, inp)
          ELSE LET a == add_speaker(st.speakers, st.speaker_episodes, e, ep, l, n)
               IN ResolveAll([st EXCEPT !.speakers = a.speakers,
                                        !.speaker_episodes = a.speaker_episodes,
                                        !.map = (l :> a.speaker_id) @@ @],
                             Tail(order), ep, inp)

\* The outcome of the ended run of process p that started on store st
RunOutcome(st, p) ==
  LET start == [speakers |-> st.speakers, speaker_episodes |-> st.speaker_episodes,
                processed_episodes |-> st.processed_episodes,
                map |-> EmptyMap, segments |-> << >>]
      inp == input[p]
  IN IF pc[p] = "skipped" \/ inp.subtitles = << >> \/ inp.turns = << >> THEN start
     ELSE LET r == ResolveAll(start, ResolutionOrder(inp), episode_num[p], inp)
              segments == generate_final_segments_with_subtitles(
                            inp.subtitles, inp.turns, r.map, MinDuration, MaxDuration)
          IN [r EXCEPT !.segments = segments,
                       !.processed_episodes =
                          IF segments = << >> \/ episode_num[p] \in Elems(@) THEN @
                          ELSE SortList(Append(@, episode_num[p]))]

EmptyStore ==
  [speakers |-> EmptyMap, speaker_episodes |-> {}, processed_episodes |-> << >>]

SameOutcome(p, r) ==
  /\ local_to_global_map[p] = r.map
  /\ final_segments[p] = r.segments

SameStore(r) ==
  /\ speakers = r.speakers
  /\ speaker_episodes = r.speaker_episodes
  /\ processed_episodes = r.processed_episodes

C21_ConsistentSnapshot ==
  [][ /\ \A s \in DOMAIN speakers' \ DOMAIN speakers :
           \E r \in speaker_episodes' : r.speaker_id = s
      /\ \A s \in DOMAIN speakers \cap DOMAIN speakers' :
           speakers'[s].embedding # speakers[s].embedding
             => speakers'[s].segment_count # speakers[s].segment_count ]_vars

\* get_episode_speaker_mapping: the dict built from the episode's rows. The
\* SELECT has no ORDER BY, so when two rows of the episode carry the same
\* local label the one the dict keeps depends on the row order: the operator
\* yields every dict a row order can produce (one dict when labels are unique).
get_episode_speaker_mapping(app, ep) ==
  LET rows == { r \in app : r.episode_num = ep }
      labels == { r.local_label : r \in rows }
  IN { m \in [labels -> { r.speaker_id : r \in rows }] :
         \A l \in labels :
           \E r \in rows : r.local_label = l /\ r.speaker_id = m[l] }

\* No cleanup has removed the rows of episode ep.
NotRemoved(ep) ==
  \A q \in Procs : pc[q] = "cleaned" => ep \notin removed_episodes[q]

\* C22: the appearance rows are an audit trail: after a completed resolution
\* pass for an episode that had no rows beforehand (no other run has worked
\* on it), get_episode_speaker_mapping of the episode is exactly the map the
\* pass returned, also when two local labels resolved to the same global id.
C22_AuditTrail ==
  \A p \in Procs :
    ResolutionDone(p) /\ AloneOnEpisode(p) /\ NotRemoved(episode_num[p])
      => get_episode_speaker_mapping(speaker_episodes, episode_num[p])
           = { local_to_global_map[p] }

\* ---------------------------------------- find_similar_speaker on its own
\* find_similar_speaker applied to any table of up to MaxStored speakers and
\* any query: stored and query vectors at any angle (equal, acute, right,
\* opposite), so that scores tie, are zero and are negative.
MaxStored == 3

FinderSigs == { <<100, 0>>, <<80, 60>>, <<120, 160>>, <<0, 100>>, <<-100, 0>> }

\* Process 1 stands at the call of find_similar_speaker for its label A
FinderInit ==
  /\ \E stored \in SeqsUpTo(FinderSigs, MaxStored) :
       speakers = [s \in 1..Len(stored) |-> SpeakerRow(stored[s], 1, "A", 1)]
  /\ speaker_episodes = { AppearanceRow(s, 1, "A", 1) : s \in DOMAIN speakers }
  /\ processed_episodes = << >>
  /\ similarity_threshold \in Thresholds
  /\ update_embeddings = FALSE
  /\ update_weight = 1
  /\ pc = [p \in Procs |-> IF p = 1 THEN "find" ELSE "idle"]
  /\ episode_num = [p \in Procs |-> IF p = 1 THEN 2 ELSE 0]
  /\ force = [p \in Procs |-> FALSE]
  /\ \E query \in FinderSigs :
       /\ input = [p \in Procs |->
            IF p = 1
            THEN [turns |-> << Turn("A", 0, 60) >>, subtitles |-> << 0 >>,
                  voices |-> [l \in {"A"} |-> query]]
            ELSE NoInput]
       /\ speaker_embeddings = [p \in Procs |->
            IF p = 1 THEN [l \in {"A"} |-> query] ELSE EmptyMap]
  /\ todo = [p \in Procs |-> IF p = 1 THEN << "A" >> ELSE << >>]
  /\ found = [p \in Procs |-> NotFound]
  /\ old_row = [p \in Procs |-> NoRow]
  /\ local_to_global_map = [p \in Procs |-> EmptyMap]
  /\ final_segments = [p \in Procs |-> << >>]
  /\ processed_read = [p \in Procs |-> << >>]
  /\ removed_episodes = [p \in Procs |-> {}]
  /\ stage_log = [p \in Procs |-> << "consolidate" >>]
  /\ store_failures = 0
  /\ subtitle_segments = << >>
  /\ merged_segments = << >>

FinderNext == Find(1)

FinderSpec == FinderInit /\ [][FinderNext]_vars

\* The scan of process p has returned.
Scanned(p) == pc[p] = "write" /\ todo[p] # << >>

\* The query of the scan of process p, and its score against stored speaker s.
Query(p) == speaker_embeddings[p][Head(todo[p])]
Score(p, s) == CosineSimilarity(Query(p), speakers[s].embedding)
Scores(p) == { Score(p, s) : s \in DOMAIN speakers }

\* C23 as stated: (none, 0.0) on an empty store; on a non-empty store the
\* stored speaker of maximal similarity and that maximal score, whatever the
\* match threshold.
C23_BestMatchAnyThreshold ==
  \A p \in Procs :
    Scanned(p) =>
      IF DOMAIN speakers = {}
      THEN found[p] = [speaker_id |-> NoSpeaker, similarity |-> 0]
      ELSE /\ found[p].speaker_id \in DOMAIN speakers
           /\ found[p].similarity = SetMax(Scores(p))
           /\ Score(p, found[p].speaker_id) = SetMax(Scores(p))

\* C23, amended: (none, 0.0) on an empty store; on a non-empty store the
\* score returned is the maximal similarity over the stored speakers, or 0.0
\* when no similarity is positive, and the speaker returned is the first
\* stored speaker of that score when the score is strictly above the match
\* threshold, and none otherwise.
C23_BestMatchAboveThreshold ==
  \A p \in Procs :
    Scanned(p) =>
      IF DOMAIN speakers = {}
      THEN found[p] = [speaker_id |-> NoSpeaker, similarity |-> 0]
      ELSE LET best == SetMax(Scores(p) \cup {0})
           IN /\ found[p].similarity = best
              /\ IF best > similarity_threshold
                 THEN /\ found[p].speaker_id \in DOMAIN speakers
                      /\ Score(p, found[p].speaker_id) = best
                      /\ \A s \in DOMAIN speakers :
                           Score(p, s) = best => s >= found[p].speaker_id
                 ELSE found[p].speaker_id = NoSpeaker

\* A scan of a table of three that returned the first of two speakers tied
\* at the best score, the third scoring below zero.
C23_Witness ==
  /\ Scanned(1)
  /\ Cardinality(DOMAIN speakers) = 3
  /\ found[1].speaker_id = 2
  /\ Score(1, 3) = found[1].similarity
  /\ Score(1, 1) < 0

\* The global ids the pass of process p has handed out so far.
AssignedIds(p) == { local_to_global_map[p][l] : l \in DOMAIN local_to_global_map[p] }

\* Label l of the pass of process p, already resolved, is dissimilar to the
\* label the pass is resolving: their signatures, and the current label's
\* signature and the stored signature of l's speaker, score no more than the
\* threshold.
Dissimilar(p, l) ==
  /\ CosineSimilarity(speaker_embeddings[p][l], Query(p)) <= similarity_threshold
  /\ Score(p, local_to_global_map[p][l]) <= similarity_threshold

\* C24: two local speakers of one episode with dissimilar signatures resolve
\* to two distinct global ids, in whichever order the pass visits them: the
\* scan for the later label never returns the speaker of an earlier label
\* that is dissimilar to it, the write that follows a match records the
\* scan's speaker, and the write that follows no match records an id none of
\* the pass's labels has.
C24_DissimilarDistinct ==
  [][ \A p \in Procs :
        /\ FindStep(p) =>
             \A l \in DOMAIN local_to_global_map[p] :
               Dissimilar(p, l) => found'[p].speaker_id # local_to_global_map[p][l]
        /\ WriteStep(p) =>
             /\ Head(todo[p]) \in DOMAIN local_to_global_map'[p]
             /\ IF found[p].speaker_id # NoSpeaker
                THEN local_to_global_map'[p][Head(todo[p])] = found[p].speaker_id
                ELSE local_to_global_map'[p][Head(todo[p])] \notin AssignedIds(p) ]_vars

\* A pass that resolved two labels whose signatures score exactly the
\* threshold (0.60) to two ids, the second one by a match with a speaker of
\* another episode.
C24_Witness ==
  \E p \in Procs :
    /\ pc[p] = "build"
    /\ DOMAIN local_to_global_map[p] = { "A", "B" }
    /\ CosineSimilarity(speaker_embeddings[p]["A"], speaker_embeddings[p]["B"])
         = similarity_threshold
    /\ local_to_global_map[p]["A"] # local_to_global_map[p]["B"]
    /\ \E r \in speaker_episodes :
         /\ r.speaker_id = local_to_global_map[p]["B"]
         /\ r.episode_num # episode_num[p]

\* ------------------------------------------ the consolidator on its own
\* Stage 1 and the resolution pass of one run on an empty database, for any
\* detector output of up to MaxTurns turns: two labels whose turns sum below,
\* exactly to and above min_speaker_duration (5.0 s).
ConsolidatorTurnSet ==
  { Turn("A", 0, 30), Turn("A", 30, 50), Turn("A", 60, 61),
    Turn("B", 0, 49), Turn("B", 60, 61) }

ConsolidatorVoices ==
  { [l \in {"A", "B"} |-> IF l = "A" THEN <<100, 0>> ELSE <<0, 100>>],
    [l \in {"B"} |-> <<0, 100>>] }

\* Process 1 has passed the processed check and the early returns
ConsolidatorInit ==
  /\ speakers = EmptyMap
  /\ speaker_episodes = {}
  /\ processed_episodes = << >>
  /\ similarity_threshold = 85
  /\ update_embeddings = FALSE
  /\ update_weight = 1
  /\ pc = [p \in Procs |-> IF p = 1 THEN "consolidate" ELSE "idle"]
  /\ episode_num = [p \in Procs |-> IF p = 1 THEN 1 ELSE 0]
  /\ force = [p \in Procs |-> FALSE]
  /\ \E turns \in SeqsUpTo(ConsolidatorTurnSet, MaxTurns) \ { << >> },
        voices \in ConsolidatorVoices :
       input = [p \in Procs |->
                  IF p = 1
                  THEN [turns |-> turns, subtitles |-> << 0 >>, voices |-> voices]
                  ELSE NoInput]
  /\ speaker_embeddings = [p \in Procs |-> EmptyMap]
  /\ todo = [p \in Procs |-> << >>]
  /\ found = [p \in Procs |-> NotFound]
  /\ old_row = [p \in Procs |-> NoRow]
  /\ local_to_global_map = [p \in Procs |-> EmptyMap]
  /\ final_segments = [p \in Procs |-> << >>]
  /\ processed_read = [p \in Procs |-> << >>]
  /\ removed_episodes = [p \in Procs |-> {}]
  /\ stage_log = [p \in Procs |-> << >>]
  /\ store_failures = 0
  /\ subtitle_segments = << >>
  /\ merged_segments = << >>

ConsolidatorNext == Consolidate(1) \/ Find(1) \/ Write(1)

ConsolidatorSpec == ConsolidatorInit /\ [][ConsolidatorNext]_vars

\* The labels of a detector output, and those whose turns sum to at least
\* min_speaker_duration.
Groups(turns) == { turns[i].label : i \in 1..Len(turns) }
LongGroups(turns) == { l \in Groups(turns) : TotalDuration(turns, l) >= MinSpeakerDuration }

\* Stage 1 of the run of process p is over (and the run has not died).
Consolidated(p) == stage_log[p] # << >> /\ pc[p] # "crashed"

\* C25: the consolidator keeps a label exactly when its turns sum to at least
\* min_speaker_duration: the labels sent to extraction are the labels of at
\* least that duration (those whose extraction succeeds get a signature),
\* no shorter label is ever queued for resolution, resolved or written to
\* the store for the episode, and the number reported as filtered is the
\* number of labels minus the number kept.
C25_DurationFilter ==
  \A p \in Procs :
    Consolidated(p) =>
      LET turns == input[p].turns
      IN /\ DOMAIN speaker_embeddings[p] = LongGroups(turns) \cap DOMAIN input[p].voices
         /\ Elems(todo[p]) \subseteq LongGroups(turns)
         /\ DOMAIN local_to_global_map[p] \subseteq LongGroups(turns)
         /\ AloneOnEpisode(p) =>
              \A r \in speaker_episodes :
                r.episode_num = episode_num[p] => r.local_label \in LongGroups(turns)
         /\ filtered_count(turns, MinSpeakerDuration)
              = Cardinality(Groups(turns) \ LongGroups(turns))

\* A run that kept a label whose turns sum to exactly 5.0 s and resolved it,
\* and dropped a label of 4.9 s.
C25_Witness ==
  /\ pc[1] = "build"
  /\ TotalDuration(input[1].turns, "A") = MinSpeakerDuration
  /\ TotalDuration(input[1].turns, "B") = MinSpeakerDuration - 1
  /\ DOMAIN local_to_global_map[1] = { "A" }
  /\ filtered_count(input[1].turns, MinSpeakerDuration) = 1

\* The lines of process p's subtitle list that yield a segment: the window
\* lasts at least min_duration and at most max_duration and its dominant
\* label is in the map.
EmittingLines(p) ==
  { i \in 1..Len(input[p].subtitles) :
      LET s == LineStart(input[p].subtitles, i)
          e == LineEnd(input[p].subtitles, i)
      IN /\ MinDuration <= e - s
         /\ e - s <= MaxDuration
         /\ get_dominant_speaker_in_range(input[p].turns, s, e)
              \in DOMAIN local_to_global_map[p] }

\* The k-th line, in list order, of a set of lines.
NthLine(lines, k) == CHOOSE i \in lines : Cardinality({ j \in lines : j <= i }) = k

\* C26: the builder times a segment from the subtitle list alone: line i
\* starts at its timestamp and ends at the next line's timestamp, or at
\* start + min(10.0, max_duration) for the last line, cut to start +
\* max_duration; a line whose window is shorter than min_duration or longer
\* than max_duration yields nothing; the segments come in the order of the
\* lines, at most one per line.
C26_SegmentTiming ==
  \A p \in Procs :
    Built(p) =>
      /\ Len(final_segments[p]) = Cardinality(EmittingLines(p))
      /\ \A k \in 1..Len(final_segments[p]) :
           LET i == NthLine(EmittingLines(p), k)
           IN /\ final_segments[p][k].start = input[p].subtitles[i]
              /\ final_segments[p][k].end =
                   IF i < Len(input[p].subtitles)
                   THEN Min(input[p].subtitles[i + 1], input[p].subtitles[i] + MaxDuration)
                   ELSE input[p].subtitles[i] + Min(TailEstimate, MaxDuration)

\* Three lines gave two segments in line order: the first cut to 15.0 s, the
\* second line dropped, the last line ended by the 10.0 s estimate.
C26_Witness ==
  /\ Built(1)
  /\ Len(input[1].subtitles) = 3
  /\ Len(final_segments[1]) = 2
  /\ final_segments[1][1].start = 0
  /\ final_segments[1][1].end = MaxDuration
  /\ final_segments[1][2].start = 30
  /\ final_segments[1][2].end = 30 + TailEstimate

\* ------------------------------- subtitle-driven mode: the similarity merge
\* merge_segments_by_similarity of subtitle_driven_segmentation.py, applied
\* to any list of up to MaxSegs segments. A segment's text is the list of its
\* words, joining two texts with a space is concatenation; a segment whose
\* extraction failed carries np.zeros and embedding_extracted False.
MaxSegs == 3

Segment(s, e, embedding, extracted) ==
  [start |-> s, end |-> e, duration |-> e - s, text |-> << >>,
   embedding |-> embedding, embedding_extracted |-> extracted]

\* Windows that follow one another; from 0.0 s the second ends exactly at
\* max_duration (15.0 s) and the third 0.1 s later.
MergeWindows == { <<0, 60>>, <<60, 150>>, <<60, 151>>, <<150, 210>> }

MergeSegments ==
  { Segment(w[1], w[2], v, TRUE) : w \in MergeWindows, v \in Sigs }
    \cup { Segment(w[1], w[2], <<0, 0>>, FALSE) : w \in MergeWindows }

\* (current_segment['embedding'] + next_segment['embedding']) / 2
AverageEmbedding(a, b) == << (a[1] + b[1]) \div 2, (a[2] + b[2]) \div 2 >>

CanMerge_NoDurationCheck(current_segment, next_segment, threshold, max_duration) ==
  /\ current_segment.embedding_extracted
  /\ next_segment.embedding_extracted
  /\ Norm(current_segment.embedding) # 0
  /\ Norm(next_segment.embedding) # 0
  /\ CosineSimilarity(current_segment.embedding, next_segment.embedding) > threshold

\* can_merge: both segments have an extracted embedding, np.dot / (norm *
\* norm) is strictly above the threshold (a zero norm gives nan, and nan
\* compares False), and the merged segment would not exceed max_duration
CanMerge(current_segment, next_segment, threshold, max_duration) ==
  /\ current_segment.embedding_extracted
  /\ next_segment.embedding_extracted
  /\ Norm(current_segment.embedding) # 0
  /\ Norm(next_segment.embedding) # 0
  /\ CosineSimilarity(current_segment.embedding, next_segment.embedding) > threshold
  /\ next_segment.end - current_segment.start <= max_duration

\* the `if can_merge:` branch: current_segment after next_segment is folded in
MergeInto(current_segment, next_segment) ==
  [current_segment EXCEPT
     !.end = next_segment.end,
     !.duration = next_segment.end - current_segment.start,
     !.text = @ \o next_segment.text,
     !.embedding = AverageEmbedding(@, next_segment.embedding)]

merge_segments_by_similarity(segs, threshold, max_duration) ==
  IF Len(segs) <= 1 THEN segs
  ELSE LET F[i \in 1..Len(segs)] ==
             IF i = 1 THEN [merged |-> << >>, current |-> segs[1]]
             ELSE IF CanMerge(F[i - 1].current, segs[i], threshold, max_duration)
                  THEN [merged |-> F[i - 1].merged,
                        current |-> MergeInto(F[i - 1].current, segs[i])]
                  ELSE [merged |-> Append(F[i - 1].merged, F[i - 1].current),
                        current |-> segs[i]]
       IN Append(F[Len(segs)].merged, F[Len(segs)].current)

\* The segments with embeddings are ready; segment i's text is the word i
MergeInit ==
  /\ speakers = EmptyMap
  /\ speaker_episodes = {}
  /\ processed_episodes = << >>
  /\ similarity_threshold \in Thresholds
  /\ update_embeddings = FALSE
  /\ update_weight = 1
  /\ pc = [p \in Procs |-> IF p = 1 THEN "merge" ELSE "idle"]
  /\ episode_num = [p \in Procs |-> IF p = 1 THEN 1 ELSE 0]
  /\ force = [p \in Procs |-> FALSE]
  /\ input = [p \in Procs |-> NoInput]
  /\ speaker_embeddings = [p \in Procs |-> EmptyMap]
  /\ todo = [p \in Procs |-> << >>]
  /\ found = [p \in Procs |-> NotFound]
  /\ old_row = [p \in Procs |-> NoRow]
  /\ local_to_global_map = [p \in Procs |-> EmptyMap]
  /\ final_segments = [p \in Procs |-> << >>]
  /\ processed_read = [p \in Procs |-> << >>]
  /\ removed_episodes = [p \in Procs |-> {}]
  /\ stage_log = [p \in Procs |-> << >>]
  /\ store_failures = 0
  /\ \E segs \in SeqsUpTo(MergeSegments, MaxSegs) :
       subtitle_segments = [i \in 1..Len(segs) |-> [segs[i] EXCEPT !.text = << i >>]]
  /\ merged_segments = << >>

\* segment_by_subtitle_driven: the call of merge_segments_by_similarity
Merge(p) ==
  /\ pc[p] = "merge"
  /\ merged_segments' = merge_segments_by_similarity(subtitle_segments,
                          similarity_threshold, MaxDuration)
  /\ pc' = [pc EXCEPT ![p] = "merged"]
  /\ UNCHANGED << store, config, locals, subtitle_segments >>

MergeNext == Merge(1)

MergeSpec == MergeInit /\ [][MergeNext]_vars

\* The merge has returned.
Merged == pc[1] = "merged"

\* The input segments a merged segment is made of, by their words.
Members(k) == merged_segments[k].text

\* The merged segments' members, one run after the other.
AllMembers ==
  LET F[k \in 0..Len(merged_segments)] ==
        IF k = 0 THEN << >> ELSE F[k - 1] \o Members(k)
  IN F[Len(merged_segments)]

\* The first input segment of the run that input segment i is in.
RunStart(i) ==
  Head(Members(CHOOSE k \in 1..Len(merged_segments) : i \in Elems(Members(k))))

\* The embedding of a run once input segments first..i are folded: the
\* average of the run so far and the next member, member by member.
RECURSIVE RunEmbedding(_, _)
RunEmbedding(first, i) ==
  IF i = first THEN subtitle_segments[first].embedding
  ELSE AverageEmbedding(RunEmbedding(first, i - 1), subtitle_segments[i].embedding)

\* Input segment i + 1 qualifies to be folded into the run first..i.
Foldable(first, i) ==
  /\ subtitle_segments[first].embedding_extracted
  /\ subtitle_segments[i + 1].embedding_extracted
  /\ CosineSimilarity(RunEmbedding(first, i), subtitle_segments[i + 1].embedding)
       > similarity_threshold
  /\ subtitle_segments[i + 1].end - subtitle_segments[first].start <= MaxDuration

\* C27: merge_segments_by_similarity folds the next segment into the current
\* one exactly when both have an extracted embedding, the cosine similarity
\* of the current (merged) embedding and the next one is strictly above the
\* threshold and next.end - current.start is at most max_duration; the
\* output is a partition of the input into runs of neighbours, in order; a
\* merged segment spans its first member's start to its last member's end
\* and its text is its members' texts joined in order; no merge is longer
\* than max_duration.
C27_MergeRuns ==
  Merged =>
    /\ AllMembers = [i \in 1..Len(subtitle_segments) |-> i]
    /\ \A k \in 1..Len(merged_segments) :
         LET m == Members(k)
         IN /\ merged_segments[k].start = subtitle_segments[m[1]].start
            /\ merged_segments[k].end = subtitle_segments[m[Len(m)]].end
            /\ Len(m) >= 2 =>
                 merged_segments[k].end - merged_segments[k].start <= MaxDuration
    /\ \A i \in 1..(Len(subtitle_segments) - 1) :
         (RunStart(i + 1) = RunStart(i)) <=> Foldable(RunStart(i), i)

\* Three segments of one voice: the first two merged to exactly 15.0 s, the
\* third, which would make 21.0 s, left alone.
C27_Witness ==
  /\ Merged
  /\ Len(merged_segments) = 2
  /\ Members(1) = << 1, 2 >>
  /\ merged_segments[1].end - merged_segments[1].start = MaxDuration
  /\ Members(2) = << 3 >>
  /\ CosineSimilarity(merged_segments[1].embedding, merged_segments[2].embedding)
       > similarity_threshold

\* ------------------------------------------------- counters of the store
\* The sum of segment_count over a set of appearance rows.
RECURSIVE RowSegments(_)
RowSegments(rows) ==
  IF rows = {} THEN 0
  ELSE LET r == CHOOSE x \in rows : TRUE
       IN r.segment_count + RowSegments(rows \ { r })

\* C28: as long as only registrations and matches have written (a forced
\* re-resolution of an episode and two labels of an episode matching one
\* speaker included), every speaker's segment_count is the sum of
\* segment_count over its appearance rows.
C28_SegmentCountIsRowSum ==
  NoCleanupYet =>
    \A s \in DOMAIN speakers :
      speakers[s].segment_count
        = RowSegments({ r \in speaker_episodes : r.speaker_id = s })

\* The committed write of the cleanup of process p, and a cleanup that found
\* none of its episodes in the processed list.
CleanupStep(p) == pc[p] = "cleanup_write" /\ pc'[p] = "cleaned"
CleanupNoneStep(p) == pc[p] = "idle" /\ pc'[p] = "cleanup_none"

\* C29: the cleanup keeps the store consistent: after it, a removed episode
\* is not in the processed list and has no appearance rows, and every
\* speaker's episode_count is the number of distinct episodes of the rows it
\* still has; a cleanup none of whose episodes is in the processed list
\* changes nothing in the store.
C29_CleanupConsistent ==
  [][ \A p \in Procs :
        /\ CleanupStep(p) =>
             /\ \A e \in removed_episodes[p] :
                  /\ e \notin Elems(processed_episodes')
                  /\ \A r \in speaker_episodes' : r.episode_num # e
             /\ \A s \in DOMAIN speakers' :
                  speakers'[s].episode_count
                    = Cardinality(AppearanceEpisodes(speaker_episodes', s))
        /\ CleanupNoneStep(p) => store' = store ]_vars

\* ------------------------------------------- an episode resolved twice
\* One episode of three local speakers is processed, then processed again
\* under --force against the store the first run left (no reset, no other
\* writer, no store call raises); the store holds nothing or one speaker of
\* an earlier episode beforehand.
RerunSigs == Sigs \cup { <<0, 100>>, <<100, 100>> }

RerunTurns == << Turn("A", 0, 50), Turn("B", 50, 110), Turn("C", 110, 170) >>

RerunSeeds == { EmptyMap } \cup { [s \in {1} |-> SpeakerRow(v, 2, "A", 1)] : v \in RerunSigs }

\* Both runs have passed the processed check (the second one by --force) and
\* have the same detector turns, subtitles and extractor output
RerunInit ==
  /\ speakers \in RerunSeeds
  /\ speaker_episodes = { AppearanceRow(s, 2, "A", 1) : s \in DOMAIN speakers }
  /\ processed_episodes = IF DOMAIN speakers = {} THEN << >> ELSE << 2 >>
  /\ similarity_threshold \in Thresholds
  /\ update_embeddings \in BOOLEAN
  /\ update_weight \in UpdateWeights
  /\ pc = [p \in Procs |-> "consolidate"]
  /\ episode_num = [p \in Procs |-> 1]
  /\ force = [p \in Procs |-> p = 2]
  /\ \E voices \in [{"A", "B", "C"} -> RerunSigs] :
       input = [p \in Procs |->
                  [turns |-> RerunTurns, subtitles |-> << 0, 50, 110 >>,
                   voices |-> voices]]
  /\ speaker_embeddings = [p \in Procs |-> EmptyMap]
  /\ todo = [p \in Procs |-> << >>]
  /\ found = [p \in Procs |-> NotFound]
  /\ old_row = [p \in Procs |-> NoRow]
  /\ local_to_global_map = [p \in Procs |-> EmptyMap]
  /\ final_segments = [p \in Procs |-> << >>]
  /\ processed_read = [p \in Procs |-> << >>]
  /\ removed_episodes = [p \in Procs |-> {}]
  /\ stage_log = [p \in Procs |-> << >>]
  /\ store_failures = 0
  /\ subtitle_segments = << >>
  /\ merged_segments = << >>

RerunStep(p) ==
  \/ Consolidate(p)
  \/ Find(p)
  \/ UpdateRead(p)
  \/ UpdateWrite(p)
  \/ Write(p)
  \/ Build(p)
  \/ MarkRead(p)
  \/ MarkWrite(p)

RerunNext ==
  \/ RerunStep(1)
  \/ Terminal(1) /\ RerunStep(2)

RerunSpec == RerunInit /\ [][RerunNext]_vars

\* Process 2 re-resolves the episode process 1 has resolved, with signature
\* updates off, and commits the write for its current label.
RerunWriteStep ==
  /\ Terminal(1)
  /\ episode_num[2] = episode_num[1]
  /\ input[2] = input[1]
  /\ DOMAIN local_to_global_map[1] = DOMAIN speaker_embeddings[2]
  /\ ~update_embeddings
  /\ WriteStep(2)

\* The place of a label in the resolution order of a detector output.
OrderOf(turns, l) ==
  CHOOSE i \in 1..Len(LabelsInOrder(turns)) : LabelsInOrder(turns)[i] = l

\* In the first pass speaker s was registered by a label resolved after l.
RegisteredAfter(s, l) ==
  /\ speakers[s].note_episode = episode_num[1]
  /\ speakers[s].note_label \in Elems(LabelsInOrder(input[1].turns))
  /\ OrderOf(input[1].turns, speakers[s].note_label) > OrderOf(input[1].turns, l)

\* C30 as stated: the second pass registers no speaker, maps every label to a
\* speaker that existed after the first pass, and maps every label to the
\* global id the first pass gave it.
C30_RerunSameIds ==
  [][ RerunWriteStep =>
        LET l == Head(todo[2])
        IN /\ DOMAIN speakers' = DOMAIN speakers
           /\ local_to_global_map'[2][l] \in DOMAIN speakers
           /\ local_to_global_map'[2][l] = local_to_global_map[1][l] ]_vars

\* C30, amended: the second pass registers no speaker and maps every label
\* to a speaker that existed after the first pass; the id is the one the
\* first pass gave the label, except that a label which matched in the
\* first pass maps to a speaker registered later in that pass when that
\* speaker is strictly more similar to it than the one it had matched.
C30_RerunNoNewSpeaker ==
  [][ RerunWriteStep =>
        LET l == Head(todo[2])
            s1 == local_to_global_map[1][l]
            s2 == local_to_global_map'[2][l]
        IN /\ DOMAIN speakers' = DOMAIN speakers
           /\ s2 \in DOMAIN speakers
           /\ \/ s2 = s1
              \/ /\ ~(speakers[s1].note_episode = episode_num[1]
                        /\ speakers[s1].note_label = l)
                 /\ RegisteredAfter(s2, l)
                 /\ CosineSimilarity(speaker_embeddings[2][l], speakers[s2].embedding)
                      > CosineSimilarity(speaker_embeddings[2][l], speakers[s1].embedding)
     ]_vars

\* Both passes are over, signature updates off: the store has the two
\* speakers the first pass registered; A kept its id, B, which had matched
\* A's speaker, now has the id of the speaker C registered.
C30_Witness ==
  /\ ~update_embeddings
  /\ pc[1] = "done"
  /\ pc[2] = "done"
  /\ Cardinality(DOMAIN speakers) = 2
  /\ DOMAIN local_to_global_map[2] = { "A", "B", "C" }
  /\ local_to_global_map[1] = [l \in {"A", "B", "C"} |-> IF l = "C" THEN 2 ELSE 1]
  /\ local_to_global_map[2] = [l \in {"A", "B", "C"} |-> IF l = "A" THEN 1 ELSE 2]

====
